---- MODULE Spec2Model ----
(***************************************************************************)
(* Model of packages/graphql-codegen-core/src/schema/                      *)
(* schema-to-template-context.ts: schemaToTemplateContext(schema,          *)
(* documents), its type filter clearTypes and its introspection collector  *)
(* includeIntrospectionTypes.                                              *)
(*                                                                         *)
(* Representation.                                                         *)
(*  - A name is the sequence of its characters, so startsWith('__') is     *)
(*    computed on the characters.                                          *)
(*  - A GraphQL named type is a record [name, kind, astNode]; kind is the  *)
(*    class the value is an instance of.  "ForeignType" is an              *)
(*    instance of a class of another copy of the graphql package: every    *)
(*    instanceof test of this copy answers false for it.                   *)
(*  - A wrapping type is [kind |-> "GraphQLNonNull"/"GraphQLList",         *)
(*    ofType |-> t]; the absent type is Undefined.                         *)
(*  - A JavaScript object used as a map is [keys, vals]: keys is the       *)
(*    sequence of own string keys in insertion order (the order            *)
(*    Object.keys returns), vals the value of each key, proto the object   *)
(*    its prototype was replaced by (none: the prototype it was made with).*)
(*  - A document is [content |-> nodes]: the Field nodes of the syntax     *)
(*    tree in the order visit() enters them, each given as the type that   *)
(*    TypeInfo.getType() answers while the visitor is in that node.        *)
(***************************************************************************)
EXTENDS Integers, Sequences, FiniteSets, TLC

VARIABLES schema, documents, forcedTypes, pc, typesToInclude, d, f,
          typesMap, typesArray, i, result, context

vars == <<schema, documents, forcedTypes, pc, typesToInclude, d, f,
          typesMap, typesArray, i, result, context>>

\* ------------------------------------------------------------------ bounds
\* number of entries of the schema's type map
MaxTypes == 3
\* number of documents passed to one call
MaxDocs == 2
\* number of Field nodes in all documents of one call together
MaxFieldNodes == 3
\* length of the allow-list handed to the type filter on its own
MaxForced == 2

\* ------------------------------------------------------------------ names
nString == <<"S", "t", "r", "i", "n", "g">>
nInt == <<"I", "n", "t">>
nBoolean == <<"B", "o", "o", "l", "e", "a", "n">>
nID == <<"I", "D">>
nFloat == <<"F", "l", "o", "a", "t">>
nQuery == <<"Q", "u", "e", "r", "y">>
nUser == <<"U", "s", "e", "r">>
nFilter == <<"F", "i", "l", "t", "e", "r">>
nColor == <<"C", "o", "l", "o", "r">>
nResult == <<"R", "e", "s", "u", "l", "t">>
nNode == <<"N", "o", "d", "e">>
nAny == <<"_", "A", "n", "y">>
nAlien == <<"A", "l", "i", "e", "n">>
nSchema == <<"_", "_", "S", "c", "h", "e", "m", "a">>
nDirective == <<"_", "_", "D", "i", "r", "e", "c", "t", "i", "v", "e">>
nDirectiveLocation == <<"_", "_", "D", "i", "r", "e", "c", "t", "i", "v", "e",
                        "L", "o", "c", "a", "t", "i", "o", "n">>
nType == <<"_", "_", "T", "y", "p", "e">>
nField == <<"_", "_", "F", "i", "e", "l", "d">>
nInputValue == <<"_", "_", "I", "n", "p", "u", "t", "V", "a", "l", "u", "e">>
nEnumValue == <<"_", "_", "E", "n", "u", "m", "V", "a", "l", "u", "e">>
nTypeKind == <<"_", "_", "T", "y", "p", "e", "K", "i", "n", "d">>
nProto == <<"_", "_", "p", "r", "o", "t", "o", "_", "_">>

\* ------------------------------------------------------------------ helpers
Range(s) == {s[k] : k \in DOMAIN s}

\* Array.prototype.includes
Includes(arr, x) == \E k \in DOMAIN arr : arr[k] = x

\* String.prototype.startsWith
StartsWith(str, prefix) ==
    /\ Len(str) >= Len(prefix)
    /\ SubSeq(str, 1, Len(prefix)) = prefix

\* the empty object literal {}
EmptyObject == [keys |-> <<>>, vals |-> [k \in {} |-> <<>>], proto |-> <<>>]

\* Object.keys(obj)
ObjectKeys(obj) == obj.keys

\* obj[key] = value, for an object made by {} and an object value: the key
\* '__proto__' is the accessor inherited from Object.prototype, so the
\* assignment replaces the prototype and makes no own key
SetProperty(obj, key, value) ==
    IF key = nProto
    THEN [obj EXCEPT !.proto = <<value>>]
    ELSE [keys |-> IF Includes(obj.keys, key) THEN obj.keys ELSE Append(obj.keys, key),
          vals |-> [k \in (DOMAIN obj.vals) \cup {key} |->
                       IF k = key THEN value ELSE obj.vals[k]],
          proto |-> obj.proto]

\* ------------------------------------------------------------------ graphql
Undefined == [kind |-> "undefined"]

NamedKinds == {"GraphQLObjectType", "GraphQLInputObjectType", "GraphQLEnumType",
               "GraphQLUnionType", "GraphQLInterfaceType", "GraphQLScalarType"}

WrappingKinds == {"GraphQLList", "GraphQLNonNull"}

\* an AST definition node carrying the directives applied on it
AstNode(applied) == [present |-> TRUE, directives |-> applied]

\* a value built without an AST node (astNode is undefined)
NoAstNode == [present |-> FALSE, directives |-> {}]

NamedType(name, kind, applied) ==
    [name |-> name, kind |-> kind, astNode |-> AstNode(applied)]

NonNull(t) == [kind |-> "GraphQLNonNull", ofType |-> t]

ListOf(t) == [kind |-> "GraphQLList", ofType |-> t]

\* value instanceof cls
InstanceOf(value, cls) == value.kind = cls

\* graphql: getNamedType(type) strips the List and NonNull wrappers
RECURSIVE getNamedType(_)
getNamedType(type) ==
    IF type.kind \in WrappingKinds THEN getNamedType(type.ofType) ELSE type

\* graphql: isNamedType(type)
isNamedType(type) == type.kind \in NamedKinds

\* graphql: the names of the introspection types
IntrospectionTypeNames ==
    {nSchema, nDirective, nDirectiveLocation, nType, nField, nInputValue,
     nEnumValue, nTypeKind}

\* graphql: isIntrospectionType(type)
isIntrospectionType(type) ==
    isNamedType(type) /\ type.name \in IntrospectionTypeNames

\* graphql: isEnumType(type)
isEnumType(type) == InstanceOf(type, "GraphQLEnumType")

\* graphql: specifiedDirectives
SpecifiedDirectives == <<"skip", "include", "deprecated">>

\* schema.getTypeMap()
GetTypeMap(s) == s.typeMap

\* schema.getDirectives()
GetSchemaDirectives(s) == s.directives

\* graphql-toolkit: getDirectives(schema, node): the declared directives of the
\* schema that are applied on the AST node of `node`, keyed by name; empty
\* when the node has no AST node.  Only the keys are kept.
getDirectives(s, node) ==
    IF node.astNode.present
    THEN {dn \in Range(GetSchemaDirectives(s)) : dn \in node.astNode.directives}
    ELSE {}

\* ------------------------------------------------------------------ collaborators
\* utils/object-map-to-array: Object.keys(map).map(key => ({key, value: map[key]}))
objectMapToArray(objectMap) ==
    [k \in DOMAIN ObjectKeys(objectMap) |->
        [key |-> ObjectKeys(objectMap)[k],
         value |-> objectMap.vals[ObjectKeys(objectMap)[k]]]]

\* the per-kind transformers: a record made from (schema, type) by the named
\* transformer; only the type's name and the transformer are kept
Transform(transformer, s, type) ==
    [name |-> type.name, transformer |-> transformer]

\* transformDirectives(schema, directives): one record per declared directive
transformDirectives(s, directives) ==
    [k \in DOMAIN directives |-> [name |-> directives[k]]]

\* ------------------------------------------------------------------ clearTypes
GRAPHQL_PRIMITIVES == <<nString, nInt, nBoolean, nID, nFloat>>

\* a filter in which the allow-list does not rescue a primitive scalar name
clearTypesFilterPrimitiveFirst(key, forced) ==
    /\ ~Includes(GRAPHQL_PRIMITIVES, key)
    /\ (Includes(forced, key) \/ ~StartsWith(key, <<"_", "_">>))

\* a filter that tests the prefix '_' instead of '__'
clearTypesFilterOneUnderscore(key, forced) ==
    \/ Includes(forced, key)
    \/ (~Includes(GRAPHQL_PRIMITIVES, key) /\ ~StartsWith(key, <<"_">>))

\* the callback of .filter() in clearTypes
clearTypesFilter(key, forced) ==
    \/ Includes(forced, key)
    \/ (~Includes(GRAPHQL_PRIMITIVES, key) /\ ~StartsWith(key, <<"_", "_">>))

\* the .reduce() of clearTypes: obj[key] = typesMap[key] for each key in turn
RECURSIVE clearTypesReduce(_, _, _)
clearTypesReduce(obj, keys, map) ==
    IF keys = <<>> THEN obj
    ELSE clearTypesReduce(SetProperty(obj, Head(keys), map.vals[Head(keys)]),
                          Tail(keys), map)

clearTypes(map, forced) ==
    clearTypesReduce(EmptyObject,
                     SelectSeq(ObjectKeys(map), LAMBDA key : clearTypesFilter(key, forced)),
                     map)

\* ------------------------------------------------------------------ includeIntrospectionTypes
\* a visitor without the isEnumType test
FieldVisitorAnyKind(included, fieldType) ==
    LET type == getNamedType(fieldType)
    IN  IF isIntrospectionType(type) /\ ~Includes(included, type)
        THEN Append(included, type)
        ELSE included

\* a visitor without the isIntrospectionType test
FieldVisitorAnyEnum(included, fieldType) ==
    LET type == getNamedType(fieldType)
    IN  IF isEnumType(type) /\ ~Includes(included, type)
        THEN Append(included, type)
        ELSE included

\* a visitor without the includes test
FieldVisitorNoDedup(included, fieldType) ==
    LET type == getNamedType(fieldType)
    IN  IF isIntrospectionType(type) /\ isEnumType(type)
        THEN Append(included, type)
        ELSE included

\* the Field() callback: the list after the visitor entered a Field node
\* for which typeInfo.getType() answers fieldType
FieldVisitor(included, fieldType) ==
    LET type == getNamedType(fieldType)
    IN  IF isIntrospectionType(type) /\ isEnumType(type) /\ ~Includes(included, type)
        THEN Append(included, type)
        ELSE included

\* ------------------------------------------------------------------ schemaToTemplateContext
\* a result object whose usesDirectives tells that directives are declared
InitialResultDeclared(s) ==
    LET directives == getDirectives(s, s)
    IN  [types |-> <<>>, inputTypes |-> <<>>, enums |-> <<>>, unions |-> <<>>,
         scalars |-> <<>>, interfaces |-> <<>>, definedDirectives |-> <<>>,
         hasTypes |-> FALSE, hasInputTypes |-> FALSE, hasEnums |-> FALSE,
         hasUnions |-> FALSE, hasScalars |-> FALSE, hasInterfaces |-> FALSE,
         hasDefinedDirectives |-> FALSE,
         rawSchema |-> s,
         directives |-> directives,
         usesDirectives |-> Len(GetSchemaDirectives(s)) > 0]

\* the result object literal
InitialResult(s) ==
    LET directives == getDirectives(s, s)
    IN  [types |-> <<>>, inputTypes |-> <<>>, enums |-> <<>>, unions |-> <<>>,
         scalars |-> <<>>, interfaces |-> <<>>, definedDirectives |-> <<>>,
         hasTypes |-> FALSE, hasInputTypes |-> FALSE, hasEnums |-> FALSE,
         hasUnions |-> FALSE, hasScalars |-> FALSE, hasInterfaces |-> FALSE,
         hasDefinedDirectives |-> FALSE,
         rawSchema |-> s,
         directives |-> directives,
         usesDirectives |-> Cardinality(directives) > 0]

\* result.<list>.push(record): the callback goes on without throwing
Pushed(res, list, record) ==
    [threw |-> FALSE, result |-> [res EXCEPT ![list] = Append(@, record)]]

\* a classification that leaves the entry out and goes on
classifyTypeDropsUnion(res, s, graphQlType) ==
    LET actualTypeDef == graphQlType.value
    IN  IF InstanceOf(actualTypeDef, "GraphQLObjectType")
        THEN Pushed(res, "types", Transform("transformGraphQLObject", s, actualTypeDef))
        ELSE IF InstanceOf(actualTypeDef, "GraphQLInputObjectType")
        THEN Pushed(res, "inputTypes", Transform("transformGraphQLObject", s, actualTypeDef))
        ELSE IF InstanceOf(actualTypeDef, "GraphQLEnumType")
        THEN Pushed(res, "enums", Transform("transformGraphQLEnum", s, actualTypeDef))
        ELSE IF InstanceOf(actualTypeDef, "GraphQLUnionType")
        THEN [threw |-> FALSE, result |-> res]
        ELSE IF InstanceOf(actualTypeDef, "GraphQLInterfaceType")
        THEN Pushed(res, "interfaces", Transform("transformInterface", s, actualTypeDef))
        ELSE IF InstanceOf(actualTypeDef, "GraphQLScalarType")
        THEN Pushed(res, "scalars", Transform("transformScalar", s, actualTypeDef))
        ELSE [threw |-> TRUE, result |-> res]

\* a classification that skips a value of no known class instead of throwing
classifyTypeSkipsUnknown(res, s, graphQlType) ==
    LET actualTypeDef == graphQlType.value
    IN  IF InstanceOf(actualTypeDef, "GraphQLObjectType")
        THEN Pushed(res, "types", Transform("transformGraphQLObject", s, actualTypeDef))
        ELSE IF InstanceOf(actualTypeDef, "GraphQLInputObjectType")
        THEN Pushed(res, "inputTypes", Transform("transformGraphQLObject", s, actualTypeDef))
        ELSE IF InstanceOf(actualTypeDef, "GraphQLEnumType")
        THEN Pushed(res, "enums", Transform("transformGraphQLEnum", s, actualTypeDef))
        ELSE IF InstanceOf(actualTypeDef, "GraphQLUnionType")
        THEN Pushed(res, "unions", Transform("transformUnion", s, actualTypeDef))
        ELSE IF InstanceOf(actualTypeDef, "GraphQLInterfaceType")
        THEN Pushed(res, "interfaces", Transform("transformInterface", s, actualTypeDef))
        ELSE IF InstanceOf(actualTypeDef, "GraphQLScalarType")
        THEN Pushed(res, "scalars", Transform("transformScalar", s, actualTypeDef))
        ELSE [threw |-> FALSE, result |-> res]

\* a classification that puts an enum at the front of its list (unshift)
classifyTypeUnshiftsEnum(res, s, graphQlType) ==
    LET actualTypeDef == graphQlType.value
    IN  IF InstanceOf(actualTypeDef, "GraphQLObjectType")
        THEN Pushed(res, "types", Transform("transformGraphQLObject", s, actualTypeDef))
        ELSE IF InstanceOf(actualTypeDef, "GraphQLInputObjectType")
        THEN Pushed(res, "inputTypes", Transform("transformGraphQLObject", s, actualTypeDef))
        ELSE IF InstanceOf(actualTypeDef, "GraphQLEnumType")
        THEN [threw |-> FALSE,
              result |-> [res EXCEPT !.enums =
                  <<Transform("transformGraphQLEnum", s, actualTypeDef)>> \o @]]
        ELSE IF InstanceOf(actualTypeDef, "GraphQLUnionType")
        THEN Pushed(res, "unions", Transform("transformUnion", s, actualTypeDef))
        ELSE IF InstanceOf(actualTypeDef, "GraphQLInterfaceType")
        THEN Pushed(res, "interfaces", Transform("transformInterface", s, actualTypeDef))
        ELSE IF InstanceOf(actualTypeDef, "GraphQLScalarType")
        THEN Pushed(res, "scalars", Transform("transformScalar", s, actualTypeDef))
        ELSE [threw |-> TRUE, result |-> res]

\* the body of the typesArray.map() callback: the result after the entry was
\* classified, and whether the callback threw
classifyType(res, s, graphQlType) ==
    LET actualTypeDef == graphQlType.value
    IN  IF InstanceOf(actualTypeDef, "GraphQLObjectType")
        THEN Pushed(res, "types", Transform("transformGraphQLObject", s, actualTypeDef))
        ELSE IF InstanceOf(actualTypeDef, "GraphQLInputObjectType")
        THEN Pushed(res, "inputTypes", Transform("transformGraphQLObject", s, actualTypeDef))
        ELSE IF InstanceOf(actualTypeDef, "GraphQLEnumType")
        THEN Pushed(res, "enums", Transform("transformGraphQLEnum", s, actualTypeDef))
        ELSE IF InstanceOf(actualTypeDef, "GraphQLUnionType")
        THEN Pushed(res, "unions", Transform("transformUnion", s, actualTypeDef))
        ELSE IF InstanceOf(actualTypeDef, "GraphQLInterfaceType")
        THEN Pushed(res, "interfaces", Transform("transformInterface", s, actualTypeDef))
        ELSE IF InstanceOf(actualTypeDef, "GraphQLScalarType")
        THEN Pushed(res, "scalars", Transform("transformScalar", s, actualTypeDef))
        ELSE [threw |-> TRUE, result |-> res]

\* presence flags in which hasEnums keeps the value of the object literal
finishResultStaleEnums(res, s) ==
    LET r == [res EXCEPT !.definedDirectives =
                 transformDirectives(s, GetSchemaDirectives(s))]
    IN  [r EXCEPT !.hasTypes = Len(r.types) > 0,
                  !.hasInputTypes = Len(r.inputTypes) > 0,
                  !.hasUnions = Len(r.unions) > 0,
                  !.hasScalars = Len(r.scalars) > 0,
                  !.hasInterfaces = Len(r.interfaces) > 0,
                  !.hasDefinedDirectives = Len(r.definedDirectives) > 0]

\* the statements after the loop: definedDirectives and the presence flags
finishResult(res, s) ==
    LET r == [res EXCEPT !.definedDirectives =
                 transformDirectives(s, GetSchemaDirectives(s))]
    IN  [r EXCEPT !.hasTypes = Len(r.types) > 0,
                  !.hasInputTypes = Len(r.inputTypes) > 0,
                  !.hasEnums = Len(r.enums) > 0,
                  !.hasUnions = Len(r.unions) > 0,
                  !.hasScalars = Len(r.scalars) > 0,
                  !.hasInterfaces = Len(r.interfaces) > 0,
                  !.hasDefinedDirectives = Len(r.definedDirectives) > 0]

\* ------------------------------------------------------------------ inputs
tQuery == NamedType(nQuery, "GraphQLObjectType", {})
tUser == NamedType(nUser, "GraphQLObjectType", {"auth"})
tFilter == NamedType(nFilter, "GraphQLInputObjectType", {})
tColor == NamedType(nColor, "GraphQLEnumType", {})
tResult == NamedType(nResult, "GraphQLUnionType", {})
tNode == NamedType(nNode, "GraphQLInterfaceType", {})
tAny == NamedType(nAny, "GraphQLScalarType", {})
tAlien == NamedType(nAlien, "ForeignType", {})
tString == NamedType(nString, "GraphQLScalarType", {})
tInt == NamedType(nInt, "GraphQLScalarType", {})
tSchema == NamedType(nSchema, "GraphQLObjectType", {})
tTypeKind == NamedType(nTypeKind, "GraphQLEnumType", {})
tDirectiveLocation == NamedType(nDirectiveLocation, "GraphQLEnumType", {})
tProto == NamedType(nProto, "GraphQLObjectType", {})

\* the types a type map is drawn from
TypeUniverse == {tQuery, tUser, tFilter, tColor, tResult, tNode, tAny, tAlien,
                 tString, tSchema, tTypeKind}

\* the sequences of at most n different elements of S
DistinctSeqs(S, n) ==
    {s \in UNION {[1..k -> S] : k \in 0..n} :
        \A a, b \in DOMAIN s : a # b => s[a] # s[b]}

\* the type map that lists the types of seq in that order, keyed by name
TypeMapOf(seq) ==
    [keys |-> [k \in DOMAIN seq |-> seq[k].name],
     vals |-> [n \in {seq[k].name : k \in DOMAIN seq} |->
                  CHOOSE t \in Range(seq) : t.name = n],
     proto |-> <<>>]

NoDocuments == [given |-> FALSE, files |-> <<>>]

\* the documents whose Field nodes are, in visiting order, the elements of
\* flat, cut into Len(cuts) + 1 documents after the positions cuts
DocumentsOf(flat, cuts) ==
    LET lo(j) == IF j = 1 THEN 0 ELSE cuts[j - 1]
        hi(j) == IF j = Len(cuts) + 1 THEN Len(flat) ELSE cuts[j]
    IN  [given |-> TRUE,
         files |-> [j \in 1..(Len(cuts) + 1) |->
                       [content |-> SubSeq(flat, lo(j) + 1, hi(j))]]]

\* every list of at most MaxDocs documents with at most MaxFieldNodes Field
\* nodes together, each node resolving to one of choices
DocumentLists(choices) ==
    {NoDocuments, [given |-> TRUE, files |-> <<>>]} \cup
    {DocumentsOf(flat, cuts) :
        <<flat, cuts>> \in
            {fc \in (UNION {[1..n -> choices] : n \in 0..MaxFieldNodes}) \X
                    (UNION {[1..k -> 0..MaxFieldNodes] : k \in 0..(MaxDocs - 1)}) :
                /\ \A j \in DOMAIN fc[2] : fc[2][j] <= Len(fc[1])
                /\ \A j \in DOMAIN fc[2] : j > 1 => fc[2][j - 1] <= fc[2][j]}}

BeforeCall ==
    /\ forcedTypes = <<>>
    /\ pc = "call"
    /\ typesToInclude = <<>>
    /\ d = 1
    /\ f = 1
    /\ typesMap = EmptyObject
    /\ typesArray = <<>>
    /\ i = 1
    /\ result = [allocated |-> FALSE]
    /\ context = <<>>

\* any type map, with no document or one Field node of an introspection type
InitTypes ==
    /\ \E seq \in DistinctSeqs(TypeUniverse, MaxTypes) :
          /\ schema = [typeMap |-> TypeMapOf(seq),
                       directives |-> SpecifiedDirectives \o <<"auth">>,
                       astNode |-> NoAstNode]
          /\ documents \in {NoDocuments} \cup
                {DocumentsOf(<<t>>, <<>>) : t \in {x \in Range(seq) : StartsWith(x.name, <<"_", "_">>)}}
    /\ BeforeCall

\* one schema, with any documents over its types
DocumentSchemaTypes ==
    <<tQuery, tColor, tString, tSchema, tTypeKind, tDirectiveLocation>>

InitDocuments ==
    /\ schema = [typeMap |-> TypeMapOf(DocumentSchemaTypes),
                 directives |-> SpecifiedDirectives,
                 astNode |-> NoAstNode]
    /\ documents \in DocumentLists({Undefined, tColor, tSchema, tTypeKind,
                                    tDirectiveLocation,
                                    NonNull(ListOf(NonNull(tTypeKind)))})
    /\ BeforeCall

\* any declaration of directives and, as the schema is a validated one, any
\* application of a declared @auth on the schema definition and on a type,
\* on small type maps
InitDirectives ==
    /\ \E declared \in {<<>>, SpecifiedDirectives, SpecifiedDirectives \o <<"auth">>} :
       \E node \in {NoAstNode} \cup
                   {AstNode(A) : A \in SUBSET ({"auth"} \cap Range(declared))} :
       \E seq \in DistinctSeqs({tQuery, tAlien, tTypeKind} \cup
                               (IF "auth" \in Range(declared) THEN {tUser} ELSE {}), 2) :
          /\ schema = [typeMap |-> TypeMapOf(seq),
                       directives |-> declared,
                       astNode |-> node]
          /\ documents \in {NoDocuments} \cup
                {DocumentsOf(<<t>>, <<>>) : t \in Range(seq) \cap {tTypeKind}}
    /\ BeforeCall

Init == InitTypes \/ InitDocuments \/ InitDirectives

\* ------------------------------------------------------------------ actions
\* schemaToTemplateContext is entered and calls includeIntrospectionTypes,
\* which starts the traversal when documents were given
Call ==
    /\ pc = "call"
    /\ typesToInclude' = <<>>
    /\ d' = 1
    /\ f' = 1
    /\ pc' = IF documents.given /\ Len(documents.files) > 0 THEN "visit" ELSE "build"
    /\ UNCHANGED <<schema, documents, forcedTypes, typesMap, typesArray, i,
                   result, context>>

\* visit() enters the next Field node of the current document
Field ==
    /\ pc = "visit"
    /\ f <= Len(documents.files[d].content)
    /\ typesToInclude' = FieldVisitor(typesToInclude, documents.files[d].content[f])
    /\ f' = f + 1
    /\ UNCHANGED <<schema, documents, forcedTypes, pc, d, typesMap, typesArray,
                   i, result, context>>

\* visit() of the current document returns; forEach goes to the next one, or
\* includeIntrospectionTypes returns
EndVisit ==
    /\ pc = "visit"
    /\ f > Len(documents.files[d].content)
    /\ d' = d + 1
    /\ f' = 1
    /\ pc' = IF d + 1 > Len(documents.files) THEN "build" ELSE "visit"
    /\ UNCHANGED <<schema, documents, forcedTypes, typesToInclude, typesMap,
                   typesArray, i, result, context>>

\* the result object is allocated and the type map filtered
Build ==
    /\ pc = "build"
    /\ result' = InitialResult(schema)
    /\ forcedTypes' = [k \in DOMAIN typesToInclude |-> typesToInclude[k].name]
    /\ typesMap' = clearTypes(GetTypeMap(schema), forcedTypes')
    /\ typesArray' = objectMapToArray(typesMap')
    /\ i' = 1
    /\ pc' = "classify"
    /\ UNCHANGED <<schema, documents, typesToInclude, d, f, context>>

\* the map() callback classifies the next entry
Classify ==
    /\ pc = "classify"
    /\ i <= Len(typesArray)
    /\ ~classifyType(result, schema, typesArray[i]).threw
    /\ result' = classifyType(result, schema, typesArray[i]).result
    /\ i' = i + 1
    /\ UNCHANGED <<schema, documents, forcedTypes, pc, typesToInclude, d, f,
                   typesMap, typesArray, context>>

\* the map() callback throws on the next entry: the call ends with the error
Throw ==
    /\ pc = "classify"
    /\ i <= Len(typesArray)
    /\ classifyType(result, schema, typesArray[i]).threw
    /\ pc' = "thrown"
    /\ UNCHANGED <<schema, documents, forcedTypes, typesToInclude, d, f,
                   typesMap, typesArray, i, result, context>>

\* after the loop: directives, presence flags, return
Finish ==
    /\ pc = "classify"
    /\ i > Len(typesArray)
    /\ result' = finishResult(result, schema)
    /\ context' = <<result'>>
    /\ pc' = "returned"
    /\ UNCHANGED <<schema, documents, forcedTypes, typesToInclude, d, f,
                   typesMap, typesArray, i>>

Next == Call \/ Field \/ EndVisit \/ Build \/ Classify \/ Throw \/ Finish

Spec == Init /\ [][Next]_vars

\* ------------------------------------------------------------------ clearTypes on its own
\* the names the type filter is tried on
FilterTypes == {tQuery, tAny, tString, tInt, tSchema, tTypeKind, tProto}

\* the names an allow-list is drawn from
ForcedNames == {nString, nFloat, nTypeKind, nQuery, nProto}

InitFilter ==
    /\ \E seq \in DistinctSeqs(FilterTypes, MaxTypes) :
          schema = [typeMap |-> TypeMapOf(seq),
                    directives |-> SpecifiedDirectives,
                    astNode |-> NoAstNode]
    /\ documents = NoDocuments
    /\ forcedTypes \in DistinctSeqs(ForcedNames, MaxForced)
    /\ pc = "clearTypes"
    /\ typesToInclude = <<>>
    /\ d = 1
    /\ f = 1
    /\ typesMap = EmptyObject
    /\ typesArray = <<>>
    /\ i = 1
    /\ result = [allocated |-> FALSE]
    /\ context = <<>>

\* clearTypes(typesMap, forcedTypes) is called and returns
ClearTypesCall ==
    /\ pc = "clearTypes"
    /\ typesMap' = clearTypes(GetTypeMap(schema), forcedTypes)
    /\ pc' = "cleared"
    /\ UNCHANGED <<schema, documents, forcedTypes, typesToInclude, d, f,
                   typesArray, i, result, context>>

NextFilter == ClearTypesCall

SpecFilter == InitFilter /\ [][NextFilter]_vars

\* ------------------------------------------------------------------ vocabulary of the properties
PrimitiveNames == {nString, nInt, nBoolean, nID, nFloat}

ReservedPrefixed(name) == Len(name) >= 2 /\ name[1] = "_" /\ name[2] = "_"

\* the names of the raw type map, in its iteration order
RawKeys == GetTypeMap(schema).keys

RawType(name) == GetTypeMap(schema).vals[name]

\* the allow-list handed to the filter
AllowList == Range(forcedTypes)

\* survival as the data model states it
Survives(name) ==
    /\ name \notin PrimitiveNames
    /\ (~ReservedPrefixed(name) \/ name \in AllowList)

SurvivorKeys == SelectSeq(RawKeys, Survives)

Returned == pc = "returned"

\* the call is past the filter
Filtered == pc \in {"classify", "thrown", "returned"}

\* includeIntrospectionTypes has returned
Collected == pc \in {"build", "classify", "thrown", "returned"}

NamesOf(list) == [k \in DOMAIN list |-> list[k].name]

CountIn(list, name) == Cardinality({k \in DOMAIN list : list[k].name = name})

Occurrences(ctx, name) ==
    CountIn(ctx.types, name) + CountIn(ctx.inputTypes, name) +
    CountIn(ctx.enums, name) + CountIn(ctx.unions, name) +
    CountIn(ctx.interfaces, name) + CountIn(ctx.scalars, name)

TotalLength(ctx) ==
    Len(ctx.types) + Len(ctx.inputTypes) + Len(ctx.enums) + Len(ctx.unions) +
    Len(ctx.interfaces) + Len(ctx.scalars)

\* the surviving names whose type is of class cls, in raw order
SurvivorsOfKind(cls) ==
    SelectSeq(RawKeys, LAMBDA n : Survives(n) /\ RawType(n).kind = cls)

\* the Field nodes of all documents, in visiting order
RECURSIVE Flatten(_)
Flatten(files) ==
    IF files = <<>> THEN <<>> ELSE Head(files).content \o Flatten(Tail(files))

FieldNodes == IF documents.given THEN Flatten(documents.files) ELSE <<>>

\* the resolved named type of each Field node
ResolvedTypes == [k \in DOMAIN FieldNodes |-> getNamedType(FieldNodes[k])]

IsIntrospectionEnum(t) ==
    /\ t.kind = "GraphQLEnumType"
    /\ t.name \in IntrospectionTypeNames

IsIntrospectionObject(t) ==
    /\ t.kind = "GraphQLObjectType"
    /\ t.name \in IntrospectionTypeNames

\* the position of the first Field node that resolves to t
FirstVisit(t) ==
    CHOOSE k \in DOMAIN ResolvedTypes :
        /\ ResolvedTypes[k] = t
        /\ \A j \in 1..(k - 1) : ResolvedTypes[j] # t

\* ------------------------------------------------------------------ C1
\* C1: in a returned context every surviving name of the type map has exactly
\* one record in the six lists together, every other name has none, and the
\* six lengths sum to the number of surviving names.
C1_ExactlyOneList ==
    Returned =>
        /\ \A n \in Range(RawKeys) :
              Occurrences(context[1], n) = IF Survives(n) THEN 1 ELSE 0
        /\ TotalLength(context[1]) = Len(SurvivorKeys)

C1_Witness ==
    /\ Returned
    /\ Len(SurvivorKeys) >= 2
    /\ Len(SurvivorKeys) < Len(RawKeys)
    /\ Len(context[1].unions) = 1
    /\ Len(context[1].types) = 1

\* ------------------------------------------------------------------ C2
\* C2 as stated: a name is kept iff it is not primitive and (it is not
\* '__'-prefixed or it is in the allow-list).
C2_AsStated ==
    pc = "cleared" =>
        \A n \in Range(RawKeys) :
            Includes(typesMap.keys, n) <=>
                (n \notin PrimitiveNames /\ (~ReservedPrefixed(n) \/ n \in AllowList))

\* C2 amended: a name other than '__proto__' is kept iff it is in the
\* allow-list, or it is neither primitive nor '__'-prefixed; '__proto__' is
\* never kept, allow-listed or not; a kept entry has the value of the raw map.
C2_KeptIff ==
    pc = "cleared" =>
        /\ \A n \in Range(RawKeys) :
              Includes(typesMap.keys, n) <=>
                  /\ n # nProto
                  /\ (n \in AllowList \/ (n \notin PrimitiveNames /\ ~ReservedPrefixed(n)))
        /\ \A n \in Range(typesMap.keys) : typesMap.vals[n] = RawType(n)

C2_Witness ==
    /\ pc = "cleared"
    /\ nString \in AllowList /\ Includes(typesMap.keys, nString)
    /\ Includes(RawKeys, nProto) /\ nProto \in AllowList
    /\ ~Includes(typesMap.keys, nProto)
    /\ Includes(RawKeys, nAny) /\ Includes(typesMap.keys, nAny)

\* ------------------------------------------------------------------ C3
\* the position, among the surviving names, of the first one whose type is of
\* none of the six classes (0 when there is none)
FirstUnclassifiable ==
    IF \E k \in DOMAIN SurvivorKeys : RawType(SurvivorKeys[k]).kind \notin NamedKinds
    THEN CHOOSE k \in DOMAIN SurvivorKeys :
            /\ RawType(SurvivorKeys[k]).kind \notin NamedKinds
            /\ \A j \in 1..(k - 1) : RawType(SurvivorKeys[j]).kind \in NamedKinds
    ELSE 0

\* C3: when a surviving type is of none of the six classes, the call never
\* returns a context: the loop does not get past that type, the error is
\* raised when it is reached, and the type is in none of the lists.
C3_Unclassifiable ==
    (Filtered /\ FirstUnclassifiable > 0) =>
        /\ ~Returned
        /\ context = <<>>
        /\ i <= FirstUnclassifiable
        /\ (pc = "classify" /\ i = FirstUnclassifiable) => ENABLED Throw
        /\ pc = "thrown" => i = FirstUnclassifiable
        /\ \A n \in Range(RawKeys) :
              RawType(n).kind \notin NamedKinds => Occurrences(result, n) = 0

C3_Witness ==
    /\ pc = "thrown"
    /\ i > 1
    /\ i < Len(SurvivorKeys)
    /\ TotalLength(result) = i - 1

\* ------------------------------------------------------------------ C4
\* a directive is applied on the schema definition or on a type of the schema
DirectiveAppliedSomewhere ==
    \/ schema.astNode.directives # {}
    \/ \E n \in Range(RawKeys) : RawType(n).astNode.directives # {}

\* C4 as stated: in a returned context usesDirectives is true iff a directive
\* is applied on the schema itself or on any type of it.
C4_AsStated ==
    Returned => (context[1].usesDirectives <=> DirectiveAppliedSomewhere)

\* C4 amended: in a returned context usesDirectives is true iff a directive
\* that the schema declares is applied on the schema definition itself.
C4_UsesSchemaDirectives ==
    Returned =>
        (context[1].usesDirectives <=>
            \E dn \in Range(schema.directives) : dn \in schema.astNode.directives)

C4_Witness ==
    /\ Returned
    /\ context[1].usesDirectives
    /\ "auth" \in schema.astNode.directives
    /\ Includes(RawKeys, nUser)

\* ------------------------------------------------------------------ C5
\* C5: each of the six lists of a returned context is the sequence of the
\* surviving types of its kind in the iteration order of the raw type map.
C5_ListOrder ==
    Returned =>
        /\ NamesOf(context[1].types) = SurvivorsOfKind("GraphQLObjectType")
        /\ NamesOf(context[1].inputTypes) = SurvivorsOfKind("GraphQLInputObjectType")
        /\ NamesOf(context[1].enums) = SurvivorsOfKind("GraphQLEnumType")
        /\ NamesOf(context[1].unions) = SurvivorsOfKind("GraphQLUnionType")
        /\ NamesOf(context[1].interfaces) = SurvivorsOfKind("GraphQLInterfaceType")
        /\ NamesOf(context[1].scalars) = SurvivorsOfKind("GraphQLScalarType")

C5_Witness ==
    /\ Returned
    /\ NamesOf(context[1].enums) = <<nTypeKind, nColor>>
    /\ Len(RawKeys) = 3
    /\ RawKeys[2] # nColor

\* ------------------------------------------------------------------ C6
\* C6: in a returned context each presence flag is true iff its list is not
\* empty.
C6_PresenceFlags ==
    Returned =>
        /\ context[1].hasTypes <=> Len(context[1].types) > 0
        /\ context[1].hasInputTypes <=> Len(context[1].inputTypes) > 0
        /\ context[1].hasEnums <=> Len(context[1].enums) > 0
        /\ context[1].hasUnions <=> Len(context[1].unions) > 0
        /\ context[1].hasScalars <=> Len(context[1].scalars) > 0
        /\ context[1].hasInterfaces <=> Len(context[1].interfaces) > 0
        /\ context[1].hasDefinedDirectives <=> Len(context[1].definedDirectives) > 0

C6_Witness ==
    /\ Returned
    /\ context[1].hasEnums /\ Len(context[1].enums) = 1
    /\ ~context[1].hasUnions /\ context[1].unions = <<>>
    /\ ~context[1].hasDefinedDirectives /\ context[1].definedDirectives = <<>>

\* ------------------------------------------------------------------ C7
RECURSIVE classifyAll(_, _, _)
classifyAll(res, s, entries) ==
    IF entries = <<>> THEN res
    ELSE classifyAll(classifyType(res, s, Head(entries)).result, s, Tail(entries))

\* what the call returns for the schema when no documents are given
ContextWithoutDocuments ==
    finishResult(classifyAll(InitialResult(schema), schema,
                             objectMapToArray(clearTypes(GetTypeMap(schema), <<>>))),
                 schema)

NoReservedName(ctx) ==
    \A n \in Range(RawKeys) : ReservedPrefixed(n) => Occurrences(ctx, n) = 0

\* C7: in a returned context, an introspection enum that a Field node of the
\* documents resolves to is in the enums list; and when every Field node
\* resolves to an introspection object type the context is the one returned
\* without documents, with no '__'-prefixed type in any list.
C7_IntrospectionEndToEnd ==
    Returned =>
        /\ \A k \in DOMAIN ResolvedTypes :
              IsIntrospectionEnum(ResolvedTypes[k]) =>
                  CountIn(context[1].enums, ResolvedTypes[k].name) = 1
        /\ (\A k \in DOMAIN ResolvedTypes : IsIntrospectionObject(ResolvedTypes[k])) =>
              /\ context[1] = ContextWithoutDocuments
              /\ NoReservedName(context[1])

C7_Witness ==
    /\ Returned
    /\ \E k \in DOMAIN ResolvedTypes : ResolvedTypes[k] = tTypeKind
    /\ \E k \in DOMAIN ResolvedTypes : ResolvedTypes[k] = tSchema
    /\ CountIn(context[1].enums, nTypeKind) = 1
    /\ CountIn(context[1].enums, nDirectiveLocation) = 0
    /\ Occurrences(context[1], nSchema) = 0

\* ------------------------------------------------------------------ C8
\* C8: the collector returns exactly the types that are the resolved named
\* type of some Field node, are introspection types and are enums; nothing
\* when documents are absent or empty.
C8_CollectedIff ==
    Collected =>
        Range(typesToInclude) =
            {ResolvedTypes[k] : k \in {j \in DOMAIN ResolvedTypes :
                                          IsIntrospectionEnum(ResolvedTypes[j])}}

C8_Witness ==
    /\ Collected
    /\ Range(typesToInclude) = {tDirectiveLocation}
    /\ \E k \in DOMAIN ResolvedTypes : ResolvedTypes[k] = tSchema
    /\ \E k \in DOMAIN ResolvedTypes : ResolvedTypes[k] = tColor

\* ------------------------------------------------------------------ C9
\* C9: the collector's list holds no type twice and is in first-discovery
\* order: of two of its types, the earlier is the one whose first Field node
\* is visited first.
C9_FirstDiscoveryOrder ==
    Collected =>
        \A a, b \in DOMAIN typesToInclude :
            /\ (a # b => typesToInclude[a] # typesToInclude[b])
            /\ (a < b <=> FirstVisit(typesToInclude[a]) < FirstVisit(typesToInclude[b]))

C9_Witness ==
    /\ Collected
    /\ typesToInclude = <<tTypeKind, tDirectiveLocation>>
    /\ Len(documents.files) = 2
    /\ ResolvedTypes = <<tTypeKind, tDirectiveLocation, tTypeKind>>

\* ------------------------------------------------------------------ C10
\* C10: a primitive scalar name of the type map is kept by the filter iff it
\* is in the allow-list.
C10_PrimitiveUnlessAllowed ==
    pc = "cleared" =>
        \A n \in Range(RawKeys) \cap PrimitiveNames :
            Includes(typesMap.keys, n) <=> n \in AllowList

C10_Witness ==
    /\ pc = "cleared"
    /\ Includes(RawKeys, nString) /\ nString \in AllowList
    /\ Includes(typesMap.keys, nString)
    /\ Includes(RawKeys, nInt) /\ ~Includes(typesMap.keys, nInt)

====
